---- MODULE Spec2Model ----
(***************************************************************************)
(* Match finding of the LocateLost backend: caseService.findMatches (the   *)
(* vector path), the matched_cases store with its unique index, and the    *)
(* notification dispatch, as a state machine whose steps are the await     *)
(* points of the JavaScript code (Spec); the feature extractor             *)
(* imageMatchingService.processImageForMatching (SpecExtract); and         *)
(* imageMatchingService.calculateSimilarity applied to its inputs          *)
(* (SpecSim); faceMatchingService.compareTwoFaces with its temp files      *)
(* (SpecFaces); the face-match handlers of the oracle path (SpecOracle);   *)
(* and the Bull queue of matchQueue with its processors and the inline     *)
(* image processing of the create handlers (SpecQueue, SpecQueueFair).     *)
(***************************************************************************)
EXTENDS Integers, Sequences, FiniteSets, TLC

(* ------------------------------------------------------------------ *)
(* Bounds of the model                                                 *)
(* ------------------------------------------------------------------ *)

\* number of findMatches invocations that may be started (and overlap)
MaxInvocations == 2

\* number of administrative status updates of reports
MaxStatusChanges == 1

\* number of processImageForMatching calls that may be started (and overlap)
MaxExtractions == 2

\* number of compareTwoFaces calls that may be started (and overlap)
MaxFaceCalls == 2

\* number of milliseconds the clock may advance
MaxClock == 1

\* number of face-match requests that may be started (and overlap)
MaxRequests == 2

\* number of jobs that may be added to the queue
MaxJobs == 2

\* the latest time (ms) at which jobs are added: they are added together
MaxAddTime == 0

\* number of clock steps one run of a job handler may last
MaxRunTicks == 0

\* scores are fixed-point numbers in units of 1/ScoreScale (1.0 = ScoreScale)
ScoreScale == 10 * 10 * 10

Procs == 1 .. MaxInvocations

\* for (let i = 0; i < 128; i++): the bytes generateSimpleImageFeatures samples
FeatureSamples == 128

\* new Array(128).fill(0): the length of the last-resort zero vector
ZeroVectorLength == 128

\* the length of detection.descriptor, the face descriptor of face-api's
\* faceRecognitionNet (a Float32Array of 128 numbers)
DescriptorLength == 128

P1 == <<"parent", 1>>
F1 == <<"finder", 1>>
F2 == <<"finder", 2>>

ParentIds == {P1}
FinderIds == {F1, F2}
ReportIds == ParentIds \cup FinderIds

\* an id no report has
MissingId == <<"parent", 0>>

\* (reportId, reportType) pairs a caller passes: each report with its role, a
\* report that does not exist, a finder id passed as a parent, an invalid type
CallArgs ==
  { <<P1, "PARENT">>, <<F1, "FINDER">>, <<F2, "FINDER">>,
    <<MissingId, "PARENT">>, <<F1, "PARENT">>, <<P1, "ADMIN">> }

\* CaseStatus enum
CaseStatus == {"ACTIVE", "CLOSED", "RESOLVED", "CANCELLED"}

\* embedding vectors an image may carry; <<>> is an unprocessed image
e1 == <<1, 0, 0, 0>>
e2 == <<0, 1, 0, 0>>
e3 == <<0, 0, 1, 0>>
vEdge == <<2, 1, 4, 2>>
vBelow == <<2, 1, 4, 3>>
vNeg == <<-1, 0, 0, 0>>
vZero == <<0, 0, 0, 0>>
vShort == <<1, 0, 0>>

\* the images (their embedding vectors, in order) of the reports P1, F1, F2
Population(p1, f1, f2) == (P1 :> p1) @@ (F1 :> f1) @@ (F2 :> f2)

\* the report populations the model starts from
Populations ==
  { Population(<<e1>>,           <<e1>>,          <<e2, vNeg, vZero>>),
    Population(<<e1, e3>>,       <<e3>>,          <<<<>>>>),
    Population(<<e2, e1>>,       <<vEdge>>,       <<vBelow, <<>>>>),
    Population(<<<<>>, vShort>>, <<e1>>,          <<vShort, e2>>),
    Population(<<e1, <<>>>>,     <<<<>>, vEdge>>, <<e1, e2>>) }

(* ------------------------------------------------------------------ *)
(* imageMatchingService.calculateSimilarity                            *)
(* ------------------------------------------------------------------ *)

RECURSIVE SumProducts(_, _, _)
\* sum over i of a[i] * b[i], the accumulation loop of calculateSimilarity
SumProducts(a, b, i) ==
  IF i > Len(a) THEN 0 ELSE a[i] * b[i] + SumProducts(a, b, i + 1)

\* l * sqrt(n) <= r, decided on integers
LeqSqrt(l, n, r) ==
  IF l <= 0
    THEN r >= 0 \/ l * l * n >= r * r
    ELSE r >= 0 /\ l * l * n <= r * r

RECURSIVE FloorScore(_, _, _, _)
\* the largest k in lo..hi with k/ScoreScale <= (cosine + 1) / 2, where
\* cosine = dot / sqrt(n); lo always qualifies
FloorScore(lo, hi, dot, n) ==
  IF lo = hi THEN lo
  ELSE LET mid == (lo + hi + 1) \div 2
       IN  IF LeqSqrt(2 * mid - ScoreScale, n, ScoreScale * dot)
             THEN FloorScore(mid, hi, dot, n)
             ELSE FloorScore(lo, mid - 1, dot, n)

\* mutant: vectors of different lengths are compared over their common prefix
calculateSimilarityCommonPrefix(embedding1, embedding2) ==
  LET len == IF Len(embedding1) < Len(embedding2)
               THEN Len(embedding1) ELSE Len(embedding2)
      prefix1 == SubSeq(embedding1, 1, len)
      prefix2 == SubSeq(embedding2, 1, len)
      dotProduct == SumProducts(prefix1, prefix2, 1)
      norm1sq == SumProducts(prefix1, prefix1, 1)
      norm2sq == SumProducts(prefix2, prefix2, 1)
  IN  IF norm1sq = 0 \/ norm2sq = 0 THEN 0
      ELSE FloorScore(0, ScoreScale, dotProduct, norm1sq * norm2sq)

\* mutant: the dot product is divided by norm1 * norm1
calculateSimilarityOneNorm(embedding1, embedding2) ==
  IF Len(embedding1) # Len(embedding2) THEN 0
  ELSE LET dotProduct == SumProducts(embedding1, embedding2, 1)
           norm1sq == SumProducts(embedding1, embedding1, 1)
           norm2sq == SumProducts(embedding2, embedding2, 1)
       IN  IF norm1sq = 0 \/ norm2sq = 0 THEN 0
           ELSE FloorScore(0, ScoreScale, dotProduct, norm1sq * norm1sq)

\* Math.max(0, (similarity + 1) / 2) in fixed point
calculateSimilarity(embedding1, embedding2) ==
  IF Len(embedding1) # Len(embedding2) THEN 0
  ELSE LET dotProduct == SumProducts(embedding1, embedding2, 1)
           norm1sq == SumProducts(embedding1, embedding1, 1)
           norm2sq == SumProducts(embedding2, embedding2, 1)
       IN  IF norm1sq = 0 \/ norm2sq = 0 THEN 0
           ELSE FloorScore(0, ScoreScale, dotProduct, norm1sq * norm2sq)

(* ------------------------------------------------------------------ *)
(* State                                                               *)
(* ------------------------------------------------------------------ *)

VARIABLES
  parentReports,   \* parent_reports rows: id -> [status, images, owner]
  finderReports,   \* finder_reports rows: id -> [status, images, owner]
  matchedCases,    \* matched_cases rows in insertion order; a row's id is its position
  notifications,   \* notifications rows written by sendNotification
  inv,             \* per findMatches invocation: its position and its locals
  statusChanges,   \* number of administrative status updates so far
  overlapped,      \* history: two invocations have been in flight at the same time
  modelsLoaded,    \* imageMatchingService: `let modelsLoaded`
  ext,             \* per processImageForMatching call: its position and its locals
  sim,             \* a calculateSimilarity call: its arguments and its result
  clock,           \* Date.now(), in milliseconds
  tempFiles,       \* the files of the temp directory: path -> [writer, content]
  faces,           \* per compareTwoFaces call: its position and its locals
  req,             \* per face-match request (oracle path): its position and locals
  caseImages,      \* case_images rows by id, with the state of their inline processing
  jobs,            \* the jobs of the Bull queue in the order they were added
  queueTime        \* the time of the queue, in milliseconds

\* the state of match finding, of the feature extractor, of the similarity
\* engine, of the face comparison with its temporary files
matchVars ==
  <<parentReports, finderReports, matchedCases, notifications, inv, statusChanges,
    overlapped>>
extractVars == <<modelsLoaded, ext>>
simVars == <<sim>>
faceVars == <<clock, tempFiles, faces>>
oracleVars == <<req>>
queueVars == <<caseImages, jobs, queueTime>>

vars == <<matchVars, extractVars, simVars, faceVars, oracleVars, queueVars>>

\* everything but one part of the state
notMatchVars == <<extractVars, simVars, faceVars, oracleVars, queueVars>>
notExtractVars == <<matchVars, simVars, faceVars, oracleVars, queueVars>>
notSimVars == <<matchVars, extractVars, faceVars, oracleVars, queueVars>>
notFaceVars == <<matchVars, extractVars, simVars, oracleVars, queueVars>>
\* everything the face-match requests neither read nor write
notOracleVars ==
  <<inv, statusChanges, overlapped, extractVars, simVars, faceVars, queueVars>>
notQueueVars == <<matchVars, extractVars, simVars, faceVars, oracleVars>>

\* an invocation between its call and its return or throw
InFlight(loc) == loc.pc \notin {"idle", "done", "failed"}

\* JavaScript null / undefined
NULL == [null |-> TRUE]

\* userId: null, the administrative / broadcast recipient
NullUser == <<"null">>

\* the reportId of an invocation that has not been called
NoReport == <<"none", 0>>

\* the user owning a report (parentId / finderId, set at creation, immutable)
OwnerOf(rid) == <<"user", rid[1], rid[2]>>

\* the locals of an invocation that has not been called yet
IdleInvocation ==
  [ pc |-> "idle", reportId |-> NoReport, reportType |-> "PARENT",
    sourceImages |-> <<>>, targetReports |-> <<>>, idx |-> 0,
    bestSimilarity |-> 0, matchData |-> NULL, newMatch |-> NULL,
    matches |-> <<>>, error |-> "",
    \* history, not read by the code: every accept/reject decision taken, the
    \* statuses at the time the candidates were loaded, lookups that found a row
    log |-> <<>>, statusAtLoad |-> <<>>, reconfirmed |-> {} ]

(* ------------------------------------------------------------------ *)
(* caseService.findMatches: the synchronous comparison loops           *)
(* ------------------------------------------------------------------ *)

\* const SIMILARITY_THRESHOLD = 0.7
SIMILARITY_THRESHOLD == (7 * ScoreScale) \div 10

RECURSIVE ScanTargetImagesLast(_, _, _, _)
\* mutant: the last comparable pair wins instead of the best one
ScanTargetImagesLast(sourceVector, targetImages, j, best) ==
  IF j > Len(targetImages) THEN best
  ELSE IF Len(targetImages[j]) = 0
    THEN ScanTargetImagesLast(sourceVector, targetImages, j + 1, best)
    ELSE ScanTargetImagesLast(sourceVector, targetImages, j + 1,
                              calculateSimilarity(sourceVector, targetImages[j]))

RECURSIVE ScanTargetImages(_, _, _, _)
\* inner loop: for (const targetImage of targetReport.images)
ScanTargetImages(sourceVector, targetImages, j, best) ==
  IF j > Len(targetImages) THEN best
  ELSE IF Len(targetImages[j]) = 0
    THEN ScanTargetImages(sourceVector, targetImages, j + 1, best)
    ELSE LET similarity == calculateSimilarity(sourceVector, targetImages[j])
         IN  ScanTargetImages(sourceVector, targetImages, j + 1,
                              IF similarity > best THEN similarity ELSE best)

RECURSIVE ScanSourceImages(_, _, _, _)
\* outer loop: for (const sourceImage of sourceReport.images)
ScanSourceImages(sourceImages, targetImages, i, best) ==
  IF i > Len(sourceImages) THEN best
  ELSE IF Len(sourceImages[i]) = 0
    THEN ScanSourceImages(sourceImages, targetImages, i + 1, best)
    ELSE ScanSourceImages(sourceImages, targetImages, i + 1,
                          ScanTargetImages(sourceImages[i], targetImages, 1, best))

\* let bestSimilarity = 0; ... the two nested loops
BestSimilarity(sourceImages, targetImages) ==
  ScanSourceImages(sourceImages, targetImages, 1, 0)

\* mutant: the boundary is excluded
AcceptsAboveOnly(bestSimilarity) == bestSimilarity > SIMILARITY_THRESHOLD

\* if (bestSimilarity >= SIMILARITY_THRESHOLD)
Accepts(bestSimilarity) == bestSimilarity >= SIMILARITY_THRESHOLD

\* mutant: the finder-side branch stores the ids in the parent-side order
MatchDataUnswapped(reportType, reportId, targetId, bestSimilarity) ==
  [ parentCaseId |-> reportId, finderCaseId |-> targetId,
    matchConfidence |-> bestSimilarity, status |-> "PENDING" ]

\* const matchData = reportType === 'PARENT' ? {...} : {...}
MatchData(reportType, reportId, targetId, bestSimilarity) ==
  IF reportType = "PARENT"
    THEN [ parentCaseId |-> reportId, finderCaseId |-> targetId,
           matchConfidence |-> bestSimilarity, status |-> "PENDING" ]
    ELSE [ parentCaseId |-> targetId, finderCaseId |-> reportId,
           matchConfidence |-> bestSimilarity, status |-> "PENDING" ]

RECURSIVE NextCandidate(_, _)
\* for (const targetReport of targetReports): runs from candidate `from` to the
\* next await (the existence lookup of an accepted candidate) or to the return
NextCandidate(loc, from) ==
  IF from > Len(loc.targetReports)
    THEN [loc EXCEPT !.pc = "done", !.idx = from]
    ELSE LET target == loc.targetReports[from]
             best == BestSimilarity(loc.sourceImages, target.images)
             entry == [target |-> target.id, best |-> best]
         IN  IF Accepts(best)
               THEN [loc EXCEPT
                       !.pc = "findFirst", !.idx = from,
                       !.bestSimilarity = best,
                       !.matchData = MatchData(loc.reportType, loc.reportId,
                                               target.id, best),
                       !.log = Append(loc.log, entry @@ [accepted |-> TRUE])]
               ELSE NextCandidate(
                      [loc EXCEPT
                         !.log = Append(loc.log, entry @@ [accepted |-> FALSE])],
                      from + 1)

(* ------------------------------------------------------------------ *)
(* The store: prisma queries on reports and matched_cases              *)
(* ------------------------------------------------------------------ *)

RECURSIVE SetToSeq(_)
\* rows of a table in key order
SetToSeq(S) ==
  IF S = {} THEN <<>>
  ELSE LET m == CHOOSE x \in S : \A y \in S : x[2] <= y[2]
       IN  <<m>> \o SetToSeq(S \ {m})

\* mutant: the status filter is missing
FindManyAnyStatus(table, reportId) ==
  LET ids == { id \in DOMAIN table : id # reportId }
      ordered == SetToSeq(ids)
  IN  [ k \in 1 .. Len(ordered) |->
          [ id |-> ordered[k], images |-> table[ordered[k]].images ] ]

\* prisma.<opposite>Report.findMany({ where: { status: 'ACTIVE', id: { not: reportId } } })
FindManyActive(table, reportId) ==
  LET ids == { id \in DOMAIN table : table[id].status = "ACTIVE" /\ id # reportId }
      ordered == SetToSeq(ids)
  IN  [ k \in 1 .. Len(ordered) |->
          [ id |-> ordered[k], images |-> table[ordered[k]].images ] ]

\* mutant: the lookup never finds a row
FindFirstMatchNever(rows, parentCaseId, finderCaseId) == NULL

\* prisma.matchedCase.findFirst({ where: { parentCaseId, finderCaseId } })
FindFirstMatch(rows, parentCaseId, finderCaseId) ==
  LET hits == { k \in 1 .. Len(rows) :
                  /\ rows[k].parentCaseId = parentCaseId
                  /\ rows[k].finderCaseId = finderCaseId }
  IN  IF hits = {} THEN NULL
      ELSE rows[CHOOSE k \in hits : \A h \in hits : k <= h]

\* mutant: the table has no unique index on the pair
NoUniqueIndex(rows, parentCaseId, finderCaseId) == FALSE

\* CREATE UNIQUE INDEX "matched_cases_parentCaseId_finderCaseId_key"
ViolatesUniqueIndex(rows, parentCaseId, finderCaseId) ==
  \E k \in 1 .. Len(rows) :
    /\ rows[k].parentCaseId = parentCaseId
    /\ rows[k].finderCaseId = finderCaseId

\* the row prisma.matchedCase.create inserts: id generated, notificationSent
\* from the column default
NewMatchRow(rows, data) ==
  [ id |-> Len(rows) + 1,
    parentCaseId |-> data.parentCaseId, finderCaseId |-> data.finderCaseId,
    matchConfidence |-> data.matchConfidence, status |-> data.status,
    notificationSent |-> FALSE ]

(* ------------------------------------------------------------------ *)
(* imageMatchingService: values of the feature extractor               *)
(* ------------------------------------------------------------------ *)

\* processImageForMatching calls that may be started (and overlap)
ExtractCalls == 1 .. MaxExtractions

\* a feature is a number, kept as the quotient the code computes; a quotient
\* with den = 0 is NaN
Ratio(num, den) == [num |-> num, den |-> den]

\* undefined / 255
NaN == Ratio(0, 0)

\* a Node Buffer holding the given bytes
BufferOf(bytes) == [defined |-> TRUE, bytes |-> bytes]

\* an identifier's value where no Buffer was assigned
UndefinedBuffer == [defined |-> FALSE, bytes |-> <<>>]

\* the bodies an image URL may deliver
ImageBytes == { <<>>, <<7>>, <<10, 20, 255>> }

\* what the world holds behind an image URL: whether fetch and the body read
\* succeed, the bytes, whether they decode as an image, and what face detection
\* does on the decoded image; fields past a failing step are irrelevant and fixed
Images ==
  { im \in [ fetchOk : BOOLEAN, bodyOk : BOOLEAN, bytes : ImageBytes,
             decodes : BOOLEAN, detection : {"face", "none", "throws"} ] :
      /\ ~im.fetchOk => im.bodyOk
      /\ ~(im.fetchOk /\ im.bodyOk) => (im.bytes = <<>> /\ im.decodes)
      /\ ~(im.fetchOk /\ im.bodyOk /\ im.decodes) => im.detection = "none"
      /\ im.decodes /\ im.fetchOk /\ im.bodyOk => im.bytes # <<>> }

\* a URL whose fetch fails
Unreachable ==
  [ fetchOk |-> FALSE, bodyOk |-> TRUE, bytes |-> <<>>, decodes |-> TRUE,
    detection |-> "none" ]

\* Array.from(detection.descriptor): the descriptor faceRecognitionNet computes
\* for the first face, DescriptorLength numbers that depend on the image
FaceDescriptor(bytes) ==
  [ k \in 1 .. DescriptorLength |-> Ratio(bytes[1] + k, 1000) ]

\* new Array(128).fill(0)
ZeroVector == [ k \in 1 .. ZeroVectorLength |-> Ratio(0, 1) ]

\* generateSimpleImageFeatures: the size feature, then FeatureSamples bytes
\* sampled at regular intervals; `imageBuffer.length` of undefined throws a
\* TypeError, which the function's own catch turns into the zero vector
generateSimpleImageFeatures(imageBuffer) ==
  IF ~imageBuffer.defined THEN ZeroVector
  ELSE LET length == Len(imageBuffer.bytes)
           sample(i) ==
             LET index == (i * length) \div FeatureSamples
             IN  IF index + 1 \in 1 .. length
                   THEN Ratio(imageBuffer.bytes[index + 1], 255)
                   ELSE NaN
       IN  <<Ratio(length % 1000, 1000)>>
             \o [ k \in 1 .. FeatureSamples |-> sample(k - 1) ]

\* the locals of a processImageForMatching call that has not been made
IdleExtraction ==
  [ pc |-> "idle", image |-> Unreachable,
    buffer |-> UndefinedBuffer, result |-> <<>>, error |-> "",
    \* history, not read by the code: this call's loadModels ran the loading
    \* step and it succeeded
    loadedModels |-> FALSE ]

(* ------------------------------------------------------------------ *)
(* imageMatchingService.calculateSimilarity on JavaScript values       *)
(* ------------------------------------------------------------------ *)

\* a JavaScript array of numbers
JsArray(items) == [isArray |-> TRUE, items |-> items]

\* a value that is no array (null, undefined, a string, an object)
NotAnArray == [isArray |-> FALSE, items |-> <<>>]

\* the values calculateSimilarity is called with
SimilarityInputs ==
  { NotAnArray } \cup
  { JsArray(v) : v \in { <<>>, e1, e2, vEdge, vBelow, vNeg, vZero, vShort,
                         <<2, 0, 0, 0>>, <<3, 4>>, <<-3, -4>>, <<4, -3>> } }

\* mutant: the cosine is clamped at 0 without being rescaled
calculateSimilarityOfUnscaled(value1, value2) ==
  IF ~value1.isArray \/ ~value2.isArray THEN 0
  ELSE LET rescaled == calculateSimilarity(value1.items, value2.items)
       IN  IF 2 * rescaled - ScoreScale < 0 THEN 0 ELSE 2 * rescaled - ScoreScale

\* calculateSimilarity from its entry: if (!Array.isArray(embedding1) ||
\* !Array.isArray(embedding2)) return 0, then the computation on arrays
calculateSimilarityOf(value1, value2) ==
  IF ~value1.isArray \/ ~value2.isArray THEN 0
  ELSE calculateSimilarity(value1.items, value2.items)

\* no call made yet
IdleSimilarityCall ==
  [ pc |-> "idle", embedding1 |-> NotAnArray, embedding2 |-> NotAnArray,
    result |-> 0 ]

(* ------------------------------------------------------------------ *)
(* faceMatchingService: values of compareTwoFaces                      *)
(* ------------------------------------------------------------------ *)

FaceCalls == 1 .. MaxFaceCalls

\* the image URLs compareTwoFaces is called with
ImageUrls == {"urlA", "urlB"}

\* path.join(tempDir, `temp_img1_${Date.now()}.jpg`) and the same for img2
TempPath(prefix, now) == <<prefix, now>>

\* mutant: every answer of the oracle gets the high confidence
FaceResultAlwaysHigh(match) ==
  [ success |-> TRUE, match |-> match, confidence |-> 95 ]

\* const confidence = match ? 95 : 30; return { success: true, match, confidence }
FaceResult(match) ==
  [ success |-> TRUE, match |-> match, confidence |-> IF match THEN 95 ELSE 30 ]

\* catch (error) { return { success: false, match: false, confidence: 0 } }
FaceFailure == [ success |-> FALSE, match |-> FALSE, confidence |-> 0 ]

\* the locals of a compareTwoFaces call that has not been made
IdleFaceCall ==
  [ pc |-> "idle", image1Url |-> "urlA", image2Url |-> "urlA",
    img1Path |-> TempPath("temp_img1", 0), img2Path |-> TempPath("temp_img2", 0),
    result |-> FaceFailure,
    \* history, not read by the code: the call wrote over, read or deleted a
    \* file whose content another call in flight had written
    overwrote |-> FALSE, readForeign |-> FALSE, deletedForeign |-> FALSE ]

\* a call between its start and its return
FaceCallInFlight(loc) == loc.pc \notin {"idle", "returned"}

\* the file at a path holds what another call, still in flight, wrote
ForeignFile(files, calls, c, path) ==
  /\ path \in DOMAIN files
  /\ files[path].writer # c
  /\ FaceCallInFlight(calls[files[path].writer])

\* fs.createWriteStream(tempPath) and the piped download: the file is created
\* or truncated and holds the downloaded image
WriteFile(files, path, c, content) ==
  [ q \in DOMAIN files \cup {path} |->
      IF q = path THEN [writer |-> c, content |-> content] ELSE files[q] ]

\* if (fs.existsSync(path)) fs.unlinkSync(path), for both temp files
UnlinkFiles(files, paths) == [ q \in DOMAIN files \ paths |-> files[q] ]

\* no call made, an empty temp directory
InitFaceVars ==
  /\ clock = 0
  /\ tempFiles = <<>>
  /\ faces = [c \in FaceCalls |-> IdleFaceCall]

(* ------------------------------------------------------------------ *)
(* faceMatchController / faceMatchingService: values of the oracle path *)
(* ------------------------------------------------------------------ *)

Requests == 1 .. MaxRequests

\* the images (their URLs, in order) of P1, F1, F2 the oracle path starts from
OraclePopulations ==
  { Population(<<"urlA", "urlB">>, <<"urlA">>,         <<>>),
    Population(<<"urlA">>,         <<"urlA", "urlB">>, <<"urlB">>),
    Population(<<>>,               <<"urlA">>,         <<"urlB">>) }

\* (report id, side) of the requests: each report on its route, a missing report
RequestArgs ==
  { <<P1, "PARENT">>, <<F1, "FINDER">>, <<F2, "FINDER">>, <<MissingId, "PARENT">> }

\* const { minConfidence = 85 } = req.body: the default, a stricter and a laxer value
MinConfidences == {85, 96, 30}

\* what one compareTwoFaces call meets: the oracle answers match true or false,
\* or a download or the oracle call fails or times out
PairOutcomes == {"match", "nomatch", "failed"}

\* the result compareTwoFaces returns for an outcome
ResultOf(outcome) ==
  IF outcome = "failed" THEN FaceFailure ELSE FaceResult(outcome = "match")

\* compareMultipleFaces: the entry pushed for target image idx; a failed
\* comparison is pushed as a non-match
MultiEntry(idx, result, minConfidence) ==
  IF result.success
    THEN [ index |-> idx,
           match |-> result.match /\ result.confidence >= minConfidence,
           confidence |-> result.confidence ]
    ELSE [ index |-> idx, match |-> FALSE, confidence |-> 0 ]

\* mutant: the loop over the target images stops at a failed comparison
ContinueOnSuccessOnly(result) == result.success

\* compareMultipleFaces: the loop over the target images has no exit, whatever
\* a comparison returned
ContinueAfter(result) == TRUE

\* matches.filter(m => m.match) sorted by confidence, descending (stable)
ValidMatches(multi) ==
  LET valid == SelectSeq(multi, LAMBDA m : m.match)
      RECURSIVE Sorted(_)
      Sorted(rest) ==
        IF rest = <<>> THEN <<>>
        ELSE LET k == CHOOSE i \in 1 .. Len(rest) :
                        /\ \A j \in 1 .. Len(rest) :
                             rest[j].confidence <= rest[i].confidence
                        /\ \A j \in 1 .. (i - 1) :
                             rest[j].confidence < rest[i].confidence
             IN  <<rest[k]>> \o
                   Sorted([ j \in 1 .. (Len(rest) - 1) |->
                              IF j < k THEN rest[j] ELSE rest[j + 1] ])
  IN  Sorted(valid)

\* let bestMatch = { matched: false, confidence: 0, ... }
NoBestMatch == [ matched |-> FALSE, confidence |-> 0 ]

\* compareReportImages: after compareMultipleFaces for one parent image,
\* if (result.matches_found > 0 && topMatch.confidence > bestMatch.confidence)
BestMatchAfter(bestMatch, multi) ==
  LET valid == ValidMatches(multi)
  IN  IF Len(valid) > 0 /\ valid[1].confidence > bestMatch.confidence
        THEN [ matched |-> TRUE, confidence |-> valid[1].confidence ]
        ELSE bestMatch

\* the locals of a request that has not arrived
IdleRequest ==
  [ pc |-> "idle", side |-> "PARENT", reportId |-> NoReport, minConfidence |-> 85,
    sourceImages |-> <<>>, targetReports |-> <<>>, idx |-> 0,
    parentIdx |-> 0, finderIdx |-> 0, multi |-> <<>>, bestMatch |-> NoBestMatch,
    matchRecord |-> 0, matches |-> <<>>, status |-> 0, error |-> "",
    \* history, not read by the code: of the candidate being compared, the
    \* compareTwoFaces calls made and what they met; the last call's outcome
    \* and result; per compared candidate its summary
    calls |-> 0, sawMatch |-> FALSE, sawFailure |-> FALSE,
    lastOutcome |-> "none", lastResult |-> FaceFailure, log |-> <<>>,
    \* history: the match records whose notification block threw
    notifyFailed |-> {} ]

(* ------------------------------------------------------------------ *)
(* matchQueue: the Bull queue, its jobs and the case_images rows       *)
(* ------------------------------------------------------------------ *)

\* defaultJobOptions: attempts, and the base delay of the exponential backoff
attempts == 3
backoffDelay == 2000

\* the delay option of addImageProcessingJob, addMatchFindingJob and
\* addBatchProcessingJob
imageProcessingDelay == 1000
matchFindingDelay == 5000
batchProcessingDelay == 2000

\* the step of the model's clock: the delays are multiples of it
TimeStep == 10 * 10 * 10

\* matchQueue.process(name, concurrency, handler)
Concurrency(name) ==
  CASE name = "process-image-embeddings" -> 5
    [] name = "find-matches" -> 3
    [] name = "batch-process-images" -> 2

RECURSIVE Pow2(_)
Pow2(n) == IF n = 0 THEN 1 ELSE 2 * Pow2(n - 1)

\* Bull's exponential backoff: delay * 2 ^ (attemptsMade - 1)
Backoff(attemptsMade) == backoffDelay * Pow2(attemptsMade - 1)

\* the case_images rows: an image of parent report P1, one of finder report F1
ImageIds == {"i1", "i2"}
\* an id no row has
GoneImage == "gone"
ReportOfImage(imageId) == IF imageId = "i2" THEN F1 ELSE P1

\* the columns of case_images
CaseImageColumns ==
  { "id", "imageUrl", "thumbnailUrl", "embeddingVector", "fileName", "fileSize",
    "mimeType", "createdAt", "parentReportId", "finderReportId" }

\* prisma.caseImage.update({ where: { id }, data }): a field that is no column
\* is rejected; of the columns the model keeps embeddingVector
UpdateCaseImage(row, data) ==
  IF DOMAIN data \subseteq CaseImageColumns
    THEN [ ok |-> TRUE,
           row |-> IF "embeddingVector" \in DOMAIN data
                     THEN [row EXCEPT !.embeddingVector = data.embeddingVector]
                     ELSE row ]
    ELSE [ ok |-> FALSE, row |-> row ]

\* data: { embeddings: JSON.stringify(embeddings), processed: true }
EmbeddingsData(embeddings) ==
  [ embeddings |-> [ json |-> embeddings ], processed |-> TRUE ]

\* data: { embeddingVector: embeddings } of createParentReport
EmbeddingVectorData(embeddings) == [ embeddingVector |-> embeddings ]

\* the data the inline processing of a create handler writes: createParentReport
\* writes embeddingVector, createFinderReport embeddings and processed
InlineData(imageId, embeddings) ==
  IF ReportOfImage(imageId) \in ParentIds
    THEN EmbeddingVectorData(embeddings)
    ELSE EmbeddingsData(embeddings)

\* the vector a successful processImageForMatching returns
ExtractedVector == e1

\* the imageIds of the batch-process-images payloads, as the caller passes
\* them: two images; an id without a row followed by an image
BatchImageIds == { <<"i1", "i2">>, <<GoneImage, "i1">> }

\* a job as matchQueue.add creates it
NewJob(name, reportId, imageIds, delay, time) ==
  [ name |-> name, reportId |-> reportId, imageIds |-> imageIds,
    state |-> "delayed", readyAt |-> time + delay, attemptsMade |-> 0,
    pc |-> "none", idx |-> 0, ticks |-> 0,
    \* history of the latest run of the handler: the positions of imageIds
    \* attempted, the findMatches calls, whether an image failed; and the
    \* number of runs
    attempted |-> {}, findMatchesCalls |-> 0, imageFailed |-> FALSE,
    runs |-> 0 ]

\* mutant: a failed job is never retried
RetryNever(job) == FALSE

\* Bull: a job whose handler threw is retried while attemptsMade < attempts
RetryAllowed(job) == job.attemptsMade < attempts

\* Bull: the handler's promise rejected: the attempt is counted, the job is
\* delayed by the backoff or moved to failed
MoveToFailed(job, time) ==
  LET counted == [job EXCEPT !.attemptsMade = job.attemptsMade + 1, !.pc = "none"]
  IN  IF RetryAllowed(counted)
        THEN [counted EXCEPT !.state = "delayed",
                             !.readyAt = time + Backoff(counted.attemptsMade)]
        ELSE [counted EXCEPT !.state = "failed"]

\* Bull: the handler's promise resolved
MoveToCompleted(job) == [job EXCEPT !.state = "completed", !.pc = "none"]

\* the first await of a handler
FirstStep(job) ==
  CASE job.name = "process-image-embeddings" -> [job EXCEPT !.pc = "extract", !.idx = 1]
    [] job.name = "find-matches" -> [job EXCEPT !.pc = "findMatches"]
    [] job.name = "batch-process-images" ->
         IF Len(job.imageIds) = 0 THEN [job EXCEPT !.pc = "findMatches"]
         ELSE [job EXCEPT !.pc = "findUnique", !.idx = 1]

\* batch-process-images: the next turn of `for (const imageId of imageIds)`,
\* after the loop `await findMatches(reportId, reportType)`
NextImage(job) ==
  LET tried == [job EXCEPT !.attempted = @ \cup {job.idx}]
  IN  IF job.idx < Len(job.imageIds)
        THEN [tried EXCEPT !.pc = "findUnique", !.idx = job.idx + 1]
        ELSE [tried EXCEPT !.pc = "findMatches"]

\* mutant: an error while processing one image leaves the handler
RethrowImageError(job, time) == MoveToFailed(job, time)

\* batch-process-images: } catch (imageError) { console.error(...) } and the
\* loop continues with the other images
CatchImageError(job, time) == NextImage([job EXCEPT !.imageFailed = TRUE])

\* the rows as the create handlers insert them (embeddingVector: []), each
\* about to be processed inline; no job, time 0
InitQueueVars ==
  /\ caseImages = [ i \in ImageIds |->
                      [ embeddingVector |-> <<>>, inline |-> "extract",
                        \* history: some trigger path extracted a vector
                        \* for the image and has executed its update
                        extracted |-> FALSE ] ]
  /\ jobs = <<>>
  /\ queueTime = 0

(* ------------------------------------------------------------------ *)
(* Init                                                                *)
(* ------------------------------------------------------------------ *)

\* reports as their create handlers leave them: status ACTIVE, the owner the
\* submitting user, every image with the vector its processing produced
\* (empty while unprocessed)
Init ==
  /\ \E pop \in Populations :
       /\ parentReports =
            [ id \in ParentIds |->
                [ status |-> "ACTIVE", images |-> pop[id], owner |-> OwnerOf(id) ] ]
       /\ finderReports =
            [ id \in FinderIds |->
                [ status |-> "ACTIVE", images |-> pop[id], owner |-> OwnerOf(id) ] ]
  /\ matchedCases = <<>>
  /\ notifications = {}
  /\ inv = [p \in Procs |-> IdleInvocation]
  /\ statusChanges = 0
  /\ overlapped = FALSE
  /\ modelsLoaded = FALSE
  /\ ext = [c \in ExtractCalls |-> IdleExtraction]
  /\ sim = IdleSimilarityCall
  /\ InitFaceVars
  /\ req = [r \in Requests |-> IdleRequest]
  /\ InitQueueVars

(* ------------------------------------------------------------------ *)
(* caseService.findMatches, one action per await                       *)
(* ------------------------------------------------------------------ *)

\* the thrown error reaches `catch (error) { ...; throw error; }`: the
\* invocation's promise rejects
Throw(loc, message) == [loc EXCEPT !.pc = "failed", !.error = message]

\* findMatches(reportId, reportType) is called and runs to its first await
Call(p, reportId, reportType) ==
  /\ inv[p].pc = "idle"
  /\ \A q \in Procs : q < p => inv[q].pc # "idle"
  /\ LET loc == [inv[p] EXCEPT !.reportId = reportId, !.reportType = reportType]
     IN  inv' = [inv EXCEPT ![p] =
                   IF reportType \in {"PARENT", "FINDER"}
                     THEN [loc EXCEPT !.pc = "loadSource"]
                     ELSE Throw(loc, "Invalid report type")]
  /\ overlapped' = (overlapped \/ (/\ reportType \in {"PARENT", "FINDER"}
                                   /\ \E q \in Procs : InFlight(inv[q])))
  /\ UNCHANGED <<parentReports, finderReports, matchedCases, notifications,
                 statusChanges>>
  /\ UNCHANGED notMatchVars

\* mutant: the `if (!sourceReport) throw` check is missing
LoadSourceUnchecked(p) ==
  /\ inv[p].pc = "loadSource"
  /\ LET loc == inv[p]
         table == IF loc.reportType = "PARENT" THEN parentReports ELSE finderReports
     IN  inv' = [inv EXCEPT ![p] =
                   [loc EXCEPT !.pc = "loadTargets",
                               !.sourceImages =
                                 IF loc.reportId \in DOMAIN table
                                   THEN table[loc.reportId].images
                                   ELSE <<>>]]
  /\ UNCHANGED <<parentReports, finderReports, matchedCases, notifications,
                 statusChanges, overlapped>>
  /\ UNCHANGED notMatchVars

\* sourceReport = await prisma.<role>Report.findUnique({ where: { id: reportId } })
LoadSource(p) ==
  /\ inv[p].pc = "loadSource"
  /\ LET loc == inv[p]
         table == IF loc.reportType = "PARENT" THEN parentReports ELSE finderReports
     IN  inv' = [inv EXCEPT ![p] =
                   IF loc.reportId \in DOMAIN table
                     THEN [loc EXCEPT !.pc = "loadTargets",
                                      !.sourceImages = table[loc.reportId].images]
                     ELSE Throw(loc, IF loc.reportType = "PARENT"
                                       THEN "Parent report not found"
                                       ELSE "Finder report not found")]
  /\ UNCHANGED <<parentReports, finderReports, matchedCases, notifications,
                 statusChanges, overlapped>>
  /\ UNCHANGED notMatchVars

\* targetReports = await prisma.<opposite>Report.findMany(...), then the loop up
\* to the first accepted candidate
LoadTargets(p) ==
  /\ inv[p].pc = "loadTargets"
  /\ LET loc == inv[p]
         table == IF loc.reportType = "PARENT" THEN finderReports ELSE parentReports
         loaded == [loc EXCEPT
                      !.targetReports = FindManyActive(table, loc.reportId),
                      !.statusAtLoad = [id \in DOMAIN table |-> table[id].status]]
     IN  inv' = [inv EXCEPT ![p] = NextCandidate(loaded, 1)]
  /\ UNCHANGED <<parentReports, finderReports, matchedCases, notifications,
                 statusChanges, overlapped>>
  /\ UNCHANGED notMatchVars

\* existingMatch = await prisma.matchedCase.findFirst(...); if (!existingMatch)
\* goes on to create, otherwise the loop moves to the next candidate
FindFirst(p) ==
  /\ inv[p].pc = "findFirst"
  /\ LET loc == inv[p]
         existingMatch == FindFirstMatch(matchedCases, loc.matchData.parentCaseId,
                                         loc.matchData.finderCaseId)
     IN  inv' = [inv EXCEPT ![p] =
                   IF existingMatch = NULL
                     THEN [loc EXCEPT !.pc = "create"]
                     ELSE NextCandidate(
                            [loc EXCEPT !.reconfirmed = @ \cup {loc.idx}],
                            loc.idx + 1)]
  /\ UNCHANGED <<parentReports, finderReports, matchedCases, notifications,
                 statusChanges, overlapped>>
  /\ UNCHANGED notMatchVars

\* newMatch = await prisma.matchedCase.create({ data: matchData, include: ... });
\* matches.push(newMatch). The unique index rejects a second row for the pair
\* (P2002), which findMatches rethrows
Create(p) ==
  /\ inv[p].pc = "create"
  /\ LET loc == inv[p]
         data == loc.matchData
     IN  IF ViolatesUniqueIndex(matchedCases, data.parentCaseId, data.finderCaseId)
           THEN /\ inv' = [inv EXCEPT ![p] = Throw(loc, "P2002")]
                /\ UNCHANGED matchedCases
           ELSE LET row == NewMatchRow(matchedCases, data)
                IN  /\ matchedCases' = Append(matchedCases, row)
                    /\ inv' = [inv EXCEPT ![p] =
                         [loc EXCEPT
                            !.pc = "notifyParent",
                            !.newMatch =
                              [ id |-> row.id,
                                parentId |-> parentReports[row.parentCaseId].owner,
                                finderId |-> finderReports[row.finderCaseId].owner ],
                            !.matches = Append(loc.matches, row.id)]]
  /\ UNCHANGED <<parentReports, finderReports, notifications, statusChanges,
                 overlapped>>
  /\ UNCHANGED notMatchVars

\* notificationService.sendNotification: stores the notification row and
\* delivers it, or throws (`catch (error) { ...; throw error; }`)
SendNotification(p, userId, type, matchId, confidence, nextLoc) ==
  \/ /\ notifications' = notifications \cup
          {[ userId |-> userId, type |-> type, matchId |-> matchId,
             matchConfidence |-> confidence,
             by |-> p, candidate |-> inv[p].idx ]}
     /\ inv' = [inv EXCEPT ![p] = nextLoc]
  \/ /\ inv' = [inv EXCEPT ![p] = Throw(inv[p], "notification failed")]
     /\ UNCHANGED notifications

\* await sendNotification({ userId: newMatch.parentCase.parentId, ... })
NotifyParent(p) ==
  /\ inv[p].pc = "notifyParent"
  /\ SendNotification(p, inv[p].newMatch.parentId, "MATCH_FOUND",
                      inv[p].newMatch.id, inv[p].bestSimilarity,
                      [inv[p] EXCEPT !.pc = "notifyFinder"])
  /\ UNCHANGED <<parentReports, finderReports, matchedCases, statusChanges,
                 overlapped>>
  /\ UNCHANGED notMatchVars

\* await sendNotification({ userId: newMatch.finderCase.finderId, ... })
NotifyFinder(p) ==
  /\ inv[p].pc = "notifyFinder"
  /\ SendNotification(p, inv[p].newMatch.finderId, "MATCH_FOUND",
                      inv[p].newMatch.id, inv[p].bestSimilarity,
                      [inv[p] EXCEPT !.pc = "notifyAdmin"])
  /\ UNCHANGED <<parentReports, finderReports, matchedCases, statusChanges,
                 overlapped>>
  /\ UNCHANGED notMatchVars

\* await sendNotification({ userId: null, ... type: 'ADMIN_ALERT' }), then the
\* loop moves to the next candidate
NotifyAdmin(p) ==
  /\ inv[p].pc = "notifyAdmin"
  /\ SendNotification(p, NullUser, "ADMIN_ALERT",
                      inv[p].newMatch.id, inv[p].bestSimilarity,
                      NextCandidate(inv[p], inv[p].idx + 1))
  /\ UNCHANGED <<parentReports, finderReports, matchedCases, statusChanges,
                 overlapped>>
  /\ UNCHANGED notMatchVars

(* ------------------------------------------------------------------ *)
(* Report status updates by an administrator                           *)
(* ------------------------------------------------------------------ *)

\* updateParentReport / updateFinderReport: updateData.status = status.toUpperCase()
UpdateReportStatus(reportId, status) ==
  /\ statusChanges < MaxStatusChanges
  /\ statusChanges' = statusChanges + 1
  /\ IF reportId \in ParentIds
       THEN /\ parentReports[reportId].status # status
            /\ parentReports' = [parentReports EXCEPT ![reportId].status = status]
            /\ UNCHANGED finderReports
       ELSE /\ finderReports[reportId].status # status
            /\ finderReports' = [finderReports EXCEPT ![reportId].status = status]
            /\ UNCHANGED parentReports
  /\ UNCHANGED <<matchedCases, notifications, inv, overlapped>>
  /\ UNCHANGED notMatchVars

Next ==
  \/ \E p \in Procs, args \in CallArgs : Call(p, args[1], args[2])
  \/ \E p \in Procs : LoadSource(p)
  \/ \E p \in Procs : LoadTargets(p)
  \/ \E p \in Procs : FindFirst(p)
  \/ \E p \in Procs : Create(p)
  \/ \E p \in Procs : NotifyParent(p)
  \/ \E p \in Procs : NotifyFinder(p)
  \/ \E p \in Procs : NotifyAdmin(p)
  \/ \E reportId \in ReportIds, status \in CaseStatus :
       UpdateReportStatus(reportId, status)

Spec == Init /\ [][Next]_vars

(* ------------------------------------------------------------------ *)
(* imageMatchingService.processImageForMatching, one action per await  *)
(* ------------------------------------------------------------------ *)

\* return <value>
Return(loc, value) == [loc EXCEPT !.pc = "returned", !.result = value]

\* catch (error) { ...; return generateSimpleImageFeatures(buffer); }: `buffer`
\* is a const of the try block and no binding of that name is in scope in the
\* catch block, so evaluating the argument throws a ReferenceError, which leaves
\* the function
CatchHandler(loc) ==
  [loc EXCEPT !.pc = "threw", !.error = "ReferenceError: buffer is not defined"]

\* processImageForMatching(imageUrl) is called and runs into loadModels: with
\* modelsLoaded set loadModels returns at once, otherwise it starts loading
ProcessImageForMatching(c, image) ==
  /\ ext[c].pc = "idle"
  /\ \A d \in ExtractCalls : d < c => ext[d].pc # "idle"
  /\ ext' = [ext EXCEPT ![c] =
               [@ EXCEPT !.image = image,
                         !.pc = IF modelsLoaded THEN "fetch" ELSE "loadModels"]]
  /\ UNCHANGED modelsLoaded
  /\ UNCHANGED notExtractVars

\* loadModels: await Promise.all([...loadFromDisk]) resolves (modelsLoaded =
\* true) or rejects (caught and logged inside loadModels)
LoadModels(c) ==
  /\ ext[c].pc = "loadModels"
  /\ \/ /\ modelsLoaded' = TRUE
        /\ ext' = [ext EXCEPT ![c].pc = "fetch", ![c].loadedModels = TRUE]
     \/ /\ UNCHANGED modelsLoaded
        /\ ext' = [ext EXCEPT ![c].pc = "fetch"]
  /\ UNCHANGED notExtractVars

\* const response = await fetch(imageUrl)
Fetch(c) ==
  /\ ext[c].pc = "fetch"
  /\ ext' = [ext EXCEPT ![c] =
               IF ext[c].image.fetchOk
                 THEN [@ EXCEPT !.pc = "readBuffer"]
                 ELSE CatchHandler(@)]
  /\ UNCHANGED modelsLoaded
  /\ UNCHANGED notExtractVars

\* const buffer = await response.buffer(); img.src = buffer (throws for bytes
\* that are no image), then the wait for the image
ReadBuffer(c) ==
  /\ ext[c].pc = "readBuffer"
  /\ ext' = [ext EXCEPT ![c] =
               IF ext[c].image.bodyOk /\ ext[c].image.decodes
                 THEN [@ EXCEPT !.pc = "imageLoad",
                                !.buffer = BufferOf(ext[c].image.bytes)]
                 ELSE CatchHandler(@)]
  /\ UNCHANGED modelsLoaded
  /\ UNCHANGED notExtractVars

\* after await new Promise(resolve => img.onload = resolve): the canvas is
\* drawn; if (!modelsLoaded) return generateSimpleImageFeatures(buffer);
\* otherwise face detection starts
ImageLoad(c) ==
  /\ ext[c].pc = "imageLoad"
  /\ ext' = [ext EXCEPT ![c] =
               IF ~modelsLoaded
                 THEN Return(@, generateSimpleImageFeatures(ext[c].buffer))
                 ELSE [@ EXCEPT !.pc = "detect"]]
  /\ UNCHANGED modelsLoaded
  /\ UNCHANGED notExtractVars

\* const detections = await faceapi.detectAllFaces(...)...: no face gives the
\* byte-sample features, a face its descriptor, a throw goes to the catch
DetectFaces(c) ==
  /\ ext[c].pc = "detect"
  /\ ext' = [ext EXCEPT ![c] =
               CASE ext[c].image.detection = "throws" -> CatchHandler(@)
                 [] ext[c].image.detection = "none" ->
                      Return(@, generateSimpleImageFeatures(ext[c].buffer))
                 [] OTHER -> Return(@, FaceDescriptor(ext[c].buffer.bytes))]
  /\ UNCHANGED modelsLoaded
  /\ UNCHANGED notExtractVars

\* nothing but the feature extractor runs: no reports, no invocations
InitExtract ==
  /\ parentReports = <<>>
  /\ finderReports = <<>>
  /\ matchedCases = <<>>
  /\ notifications = {}
  /\ inv = [p \in Procs |-> IdleInvocation]
  /\ statusChanges = 0
  /\ overlapped = FALSE
  /\ modelsLoaded = FALSE
  /\ ext = [c \in ExtractCalls |-> IdleExtraction]
  /\ sim = IdleSimilarityCall
  /\ InitFaceVars
  /\ req = [r \in Requests |-> IdleRequest]
  /\ InitQueueVars

NextExtract ==
  \/ \E c \in ExtractCalls, image \in Images : ProcessImageForMatching(c, image)
  \/ \E c \in ExtractCalls : LoadModels(c)
  \/ \E c \in ExtractCalls : Fetch(c)
  \/ \E c \in ExtractCalls : ReadBuffer(c)
  \/ \E c \in ExtractCalls : ImageLoad(c)
  \/ \E c \in ExtractCalls : DetectFaces(c)

SpecExtract == InitExtract /\ [][NextExtract]_vars

(* ------------------------------------------------------------------ *)
(* imageMatchingService.calculateSimilarity applied to its inputs      *)
(* ------------------------------------------------------------------ *)

\* calculateSimilarity(embedding1, embedding2) is called and returns
CalculateSimilarity ==
  /\ sim.pc = "called"
  /\ sim' = [sim EXCEPT !.pc = "returned",
                        !.result = calculateSimilarityOf(sim.embedding1,
                                                         sim.embedding2)]
  /\ UNCHANGED notSimVars

\* a call with any two of the inputs
InitSim ==
  /\ parentReports = <<>>
  /\ finderReports = <<>>
  /\ matchedCases = <<>>
  /\ notifications = {}
  /\ inv = [p \in Procs |-> IdleInvocation]
  /\ statusChanges = 0
  /\ overlapped = FALSE
  /\ modelsLoaded = FALSE
  /\ ext = [c \in ExtractCalls |-> IdleExtraction]
  /\ InitFaceVars
  /\ req = [r \in Requests |-> IdleRequest]
  /\ InitQueueVars
  /\ \E value1, value2 \in SimilarityInputs :
       sim = [ pc |-> "called", embedding1 |-> value1, embedding2 |-> value2,
               result |-> 0 ]

NextSim == CalculateSimilarity

SpecSim == InitSim /\ [][NextSim]_vars

(* ------------------------------------------------------------------ *)
(* faceMatchingService.compareTwoFaces, one action per await           *)
(* ------------------------------------------------------------------ *)

\* a millisecond passes
Tick ==
  /\ clock < MaxClock
  /\ clock' = clock + 1
  /\ UNCHANGED <<tempFiles, faces>>
  /\ UNCHANGED notFaceVars

\* compareTwoFaces(image1Url, image2Url) is called: the temp paths are named
\* after Date.now(), then the first download starts
CompareTwoFaces(c, image1Url, image2Url) ==
  /\ faces[c].pc = "idle"
  /\ \A d \in FaceCalls : d < c => faces[d].pc # "idle"
  /\ faces' = [faces EXCEPT ![c] =
                 [@ EXCEPT !.pc = "download1",
                           !.image1Url = image1Url, !.image2Url = image2Url,
                           !.img1Path = TempPath("temp_img1", clock),
                           !.img2Path = TempPath("temp_img2", clock)]]
  /\ UNCHANGED <<clock, tempFiles>>
  /\ UNCHANGED notFaceVars

\* catch { return { success: false, ... } } finally { unlink both temp files }
CatchAndCleanup(c) ==
  LET loc == faces[c]
      paths == {loc.img1Path, loc.img2Path}
  IN  /\ tempFiles' = UnlinkFiles(tempFiles, paths)
      /\ faces' = [faces EXCEPT ![c] =
                     [@ EXCEPT !.pc = "returned", !.result = FaceFailure,
                               !.deletedForeign =
                                 @ \/ \E q \in paths :
                                        ForeignFile(tempFiles, faces, c, q)]]

\* await downloadImage(url, path): the download fails (caught, cleanup, return)
\* or the file at the path is written
DownloadImage(c, url, path, nextPc) ==
  \/ CatchAndCleanup(c)
  \/ /\ tempFiles' = WriteFile(tempFiles, path, c, url)
     /\ faces' = [faces EXCEPT ![c] =
                    [@ EXCEPT !.pc = nextPc,
                              !.overwrote =
                                @ \/ ForeignFile(tempFiles, faces, c, path)]]

\* await downloadImage(image1Url, img1Path)
DownloadFirst(c) ==
  /\ faces[c].pc = "download1"
  /\ DownloadImage(c, faces[c].image1Url, faces[c].img1Path, "download2")
  /\ UNCHANGED clock
  /\ UNCHANGED notFaceVars

\* await downloadImage(image2Url, img2Path)
DownloadSecond(c) ==
  /\ faces[c].pc = "download2"
  /\ DownloadImage(c, faces[c].image2Url, faces[c].img2Path, "post")
  /\ UNCHANGED clock
  /\ UNCHANGED notFaceVars

\* the two files are read into the form and await axios.post(.../face_match)
\* answers with match true or false, or fails (timeout, service error, a temp
\* file that is gone); then the result is built and the finally block unlinks
\* both temp files
PostFaceMatch(c) ==
  /\ faces[c].pc = "post"
  /\ LET loc == faces[c]
         paths == {loc.img1Path, loc.img2Path}
         cleaned(result) ==
           [loc EXCEPT !.pc = "returned", !.result = result,
                       !.readForeign =
                         @ \/ \E q \in paths \cap DOMAIN tempFiles :
                                tempFiles[q].writer # c,
                       !.deletedForeign =
                         @ \/ \E q \in paths : ForeignFile(tempFiles, faces, c, q)]
     IN  /\ tempFiles' = UnlinkFiles(tempFiles, paths)
         /\ \/ /\ paths \subseteq DOMAIN tempFiles
               /\ \E match \in BOOLEAN :
                    faces' = [faces EXCEPT ![c] = cleaned(FaceResult(match))]
            \/ faces' = [faces EXCEPT ![c] = cleaned(FaceFailure)]
  /\ UNCHANGED clock
  /\ UNCHANGED notFaceVars

\* nothing but face comparisons runs
InitFaces ==
  /\ parentReports = <<>>
  /\ finderReports = <<>>
  /\ matchedCases = <<>>
  /\ notifications = {}
  /\ inv = [p \in Procs |-> IdleInvocation]
  /\ statusChanges = 0
  /\ overlapped = FALSE
  /\ modelsLoaded = FALSE
  /\ ext = [c \in ExtractCalls |-> IdleExtraction]
  /\ sim = IdleSimilarityCall
  /\ InitFaceVars
  /\ req = [r \in Requests |-> IdleRequest]
  /\ InitQueueVars

NextFaces ==
  \/ Tick
  \/ \E c \in FaceCalls, image1Url, image2Url \in ImageUrls :
       CompareTwoFaces(c, image1Url, image2Url)
  \/ \E c \in FaceCalls : DownloadFirst(c)
  \/ \E c \in FaceCalls : DownloadSecond(c)
  \/ \E c \in FaceCalls : PostFaceMatch(c)

SpecFaces == InitFaces /\ [][NextFaces]_vars

(* ------------------------------------------------------------------ *)
(* faceMatchController: findMatchesForParentReport and                 *)
(* findMatchesForFinderReport, one action per await. The two handlers  *)
(* differ only in the side the request's report is on.                 *)
(* ------------------------------------------------------------------ *)

RequestInFlight(loc) == loc.pc \notin {"idle", "responded"}

\* res.status(code).json(...) / res.json(...): the request is answered
Respond(loc, code) == [loc EXCEPT !.pc = "responded", !.status = code]

\* the parent and the finder report of the candidate pair being handled
ParentOfPair(loc) ==
  IF loc.side = "PARENT" THEN loc.reportId ELSE loc.targetReports[loc.idx].id
FinderOfPair(loc) ==
  IF loc.side = "PARENT" THEN loc.targetReports[loc.idx].id ELSE loc.reportId

\* compareReportImages(parentReport.images, finderReport.images, minConfidence):
\* the parent's images come first on both routes
ParentImagesOfPair(loc) ==
  IF loc.side = "PARENT" THEN loc.sourceImages
  ELSE loc.targetReports[loc.idx].images
FinderImagesOfPair(loc) ==
  IF loc.side = "PARENT" THEN loc.targetReports[loc.idx].images
  ELSE loc.sourceImages

\* for (const report of activeReports): candidates without images are skipped
\* (`continue`), the first one with images is compared; past the last one the
\* handler answers 200 with the matches
RECURSIVE StartCandidate(_, _)
StartCandidate(loc, from) ==
  IF from > Len(loc.targetReports) THEN Respond(loc, 200)
  ELSE IF Len(loc.targetReports[from].images) = 0
    THEN StartCandidate(loc, from + 1)
    ELSE [loc EXCEPT !.pc = "compare", !.idx = from,
                     !.parentIdx = 1, !.finderIdx = 1, !.multi = <<>>,
                     !.bestMatch = NoBestMatch,
                     !.calls = 0, !.sawMatch = FALSE, !.sawFailure = FALSE]

\* matches.push(...) and the next turn of the loop over the candidates
PushAndContinue(loc) ==
  StartCandidate([loc EXCEPT !.matches = Append(loc.matches, loc.matchRecord)],
                 loc.idx + 1)

\* the request arrives with its report id and its minConfidence
FindMatchesForReport(r, reportId, side, minConfidence) ==
  /\ req[r].pc = "idle"
  /\ req' = [req EXCEPT ![r] =
               [IdleRequest EXCEPT !.pc = "loadSource", !.side = side,
                                   !.reportId = reportId,
                                   !.minConfidence = minConfidence]]
  /\ UNCHANGED <<parentReports, finderReports, matchedCases, notifications>>
  /\ UNCHANGED notOracleVars

\* await prisma.parentReport.findUnique / prisma.finderReport.findUnique:
\* 404 when the report is missing, 400 when it has no images
OracleLoadSource(r) ==
  /\ req[r].pc = "loadSource"
  /\ LET loc == req[r]
         table == IF loc.side = "PARENT" THEN parentReports ELSE finderReports
     IN  req' = [req EXCEPT ![r] =
                   IF loc.reportId \notin DOMAIN table THEN Respond(loc, 404)
                   ELSE IF Len(table[loc.reportId].images) = 0
                     THEN Respond(loc, 400)
                     ELSE [loc EXCEPT !.pc = "loadTargets",
                                      !.sourceImages = table[loc.reportId].images]]
  /\ UNCHANGED <<parentReports, finderReports, matchedCases, notifications>>
  /\ UNCHANGED notOracleVars

\* await prisma.finderReport.findMany({ where: { status: 'ACTIVE' } }) (or
\* parentReport), then the loop over the candidates starts
OracleLoadTargets(r) ==
  /\ req[r].pc = "loadTargets"
  /\ LET loc == req[r]
         table == IF loc.side = "PARENT" THEN finderReports ELSE parentReports
     IN  req' = [req EXCEPT ![r] =
                   StartCandidate(
                     [loc EXCEPT !.targetReports =
                                   FindManyActive(table, loc.reportId)], 1)]
  /\ UNCHANGED <<parentReports, finderReports, matchedCases, notifications>>
  /\ UNCHANGED notOracleVars

\* one `await compareTwoFaces(sourceImageUrl, targetUrl)` of compareMultipleFaces
\* inside compareReportImages, and what follows it without a further await:
\* the entry is pushed; after the last finder image the valid matches are
\* sorted and bestMatch is updated; after the last parent image
\* compareReportImages returns and the handler tests matchResult.matched
ComparePair(r) ==
  /\ req[r].pc = "compare"
  /\ \E outcome \in PairOutcomes :
       LET loc == req[r]
           result == ResultOf(outcome)
           multi == Append(loc.multi,
                           MultiEntry(loc.finderIdx - 1, result, loc.minConfidence))
           lastFinder ==
             \/ loc.finderIdx = Len(FinderImagesOfPair(loc))
             \/ ~ContinueAfter(result)
           lastParent == loc.parentIdx = Len(ParentImagesOfPair(loc))
           best == BestMatchAfter(loc.bestMatch, multi)
           seen == [loc EXCEPT !.calls = loc.calls + 1,
                               !.sawMatch = loc.sawMatch \/ outcome = "match",
                               !.sawFailure = loc.sawFailure \/ outcome = "failed",
                               !.lastOutcome = outcome, !.lastResult = result]
           done == [seen EXCEPT !.bestMatch = best, !.multi = <<>>,
                                !.log = Append(loc.log,
                                  [ target |-> loc.targetReports[loc.idx].id,
                                    calls |-> seen.calls,
                                    sawMatch |-> seen.sawMatch,
                                    sawFailure |-> seen.sawFailure,
                                    accepted |-> best.matched ])]
       IN  req' = [req EXCEPT ![r] =
             IF ~lastFinder
               THEN [seen EXCEPT !.multi = multi, !.finderIdx = loc.finderIdx + 1]
             ELSE IF ~lastParent
               THEN [seen EXCEPT !.bestMatch = best, !.multi = <<>>,
                                 !.parentIdx = loc.parentIdx + 1, !.finderIdx = 1]
             ELSE IF best.matched
               THEN [done EXCEPT !.pc = "findFirst"]
               ELSE StartCandidate(done, loc.idx + 1)]
  /\ UNCHANGED <<parentReports, finderReports, matchedCases, notifications>>
  /\ UNCHANGED notOracleVars

\* await prisma.matchedCase.findFirst({ where: { parentCaseId, finderCaseId } })
OracleFindFirst(r) ==
  /\ req[r].pc = "findFirst"
  /\ LET loc == req[r]
         existingMatch ==
           FindFirstMatch(matchedCases, ParentOfPair(loc), FinderOfPair(loc))
     IN  req' = [req EXCEPT ![r] =
                   IF existingMatch = NULL
                     THEN [loc EXCEPT !.pc = "create"]
                     ELSE [loc EXCEPT !.pc = "update",
                                      !.matchRecord = existingMatch.id]]
  /\ UNCHANGED <<parentReports, finderReports, matchedCases, notifications>>
  /\ UNCHANGED notOracleVars

\* await prisma.matchedCase.update({ where: { id: existingMatch.id }, data:
\* { matchConfidence, status: 'MATCHED', updatedAt } }): notificationSent is
\* left as it is
OracleUpdate(r) ==
  /\ req[r].pc = "update"
  /\ LET loc == req[r]
     IN  /\ matchedCases' =
              [matchedCases EXCEPT ![loc.matchRecord] =
                 [@ EXCEPT !.matchConfidence = loc.bestMatch.confidence,
                           !.status = "MATCHED"]]
         /\ req' = [req EXCEPT ![r] = [loc EXCEPT !.pc = "notifyParent"]]
  /\ UNCHANGED <<parentReports, finderReports, notifications>>
  /\ UNCHANGED notOracleVars

\* await prisma.matchedCase.create({ data: { ..., status: 'MATCHED',
\* notificationSent: false } }); the unique index rejects a second row for the
\* pair and the error reaches asyncHandler, which answers 500
OracleCreate(r) ==
  /\ req[r].pc = "create"
  /\ LET loc == req[r]
         data == [ parentCaseId |-> ParentOfPair(loc),
                   finderCaseId |-> FinderOfPair(loc),
                   matchConfidence |-> loc.bestMatch.confidence,
                   status |-> "MATCHED" ]
     IN  IF ViolatesUniqueIndex(matchedCases, data.parentCaseId, data.finderCaseId)
           THEN /\ req' = [req EXCEPT ![r] =
                             [Respond(loc, 500) EXCEPT !.error = "P2002"]]
                /\ UNCHANGED matchedCases
           ELSE LET row == NewMatchRow(matchedCases, data)
                IN  /\ matchedCases' = Append(matchedCases, row)
                    /\ req' = [req EXCEPT ![r] =
                                 [loc EXCEPT !.pc = "notifyParent",
                                             !.matchRecord = row.id]]
  /\ UNCHANGED <<parentReports, finderReports, notifications>>
  /\ UNCHANGED notOracleVars

\* mutant: the catch of the notification block also sets the flag
CatchNotifErrorMarkingSent(loc) == [loc EXCEPT !.pc = "markSent"]

\* } catch (notifError) { console.error(...) }: the error is logged and the
\* handler goes on with matches.push
CatchNotifError(loc) == PushAndContinue(loc)

\* await sendNotification({...}) inside the try block: the notification is
\* stored and delivered, or sendNotification throws into the catch
OracleSendNotification(r, userId, nextPc) ==
  LET loc == req[r]
  IN  \/ /\ notifications' = notifications \cup
              {[ userId |-> userId, type |-> "MATCH_FOUND",
                 matchId |-> loc.matchRecord,
                 matchConfidence |-> loc.bestMatch.confidence,
                 by |-> r, candidate |-> loc.idx ]}
         /\ req' = [req EXCEPT ![r] = [loc EXCEPT !.pc = nextPc]]
      \/ /\ req' = [req EXCEPT ![r] =
                   CatchNotifError(
                     [loc EXCEPT !.notifyFailed = @ \cup {loc.matchRecord}])]
         /\ UNCHANGED notifications

\* await sendNotification({ userId: <parent report's owner>, ... })
OracleNotifyParent(r) ==
  /\ req[r].pc = "notifyParent"
  /\ OracleSendNotification(r, parentReports[ParentOfPair(req[r])].owner,
                            "notifyFinder")
  /\ UNCHANGED <<parentReports, finderReports, matchedCases>>
  /\ UNCHANGED notOracleVars

\* await sendNotification({ userId: <finder report's owner>, ... })
OracleNotifyFinder(r) ==
  /\ req[r].pc = "notifyFinder"
  /\ OracleSendNotification(r, finderReports[FinderOfPair(req[r])].owner,
                            "markSent")
  /\ UNCHANGED <<parentReports, finderReports, matchedCases>>
  /\ UNCHANGED notOracleVars

\* await prisma.matchedCase.update({ where: { id }, data: { notificationSent:
\* true } }), the last statement of the try block; then matches.push
MarkNotificationSent(r) ==
  /\ req[r].pc = "markSent"
  /\ LET loc == req[r]
     IN  /\ matchedCases' =
              [matchedCases EXCEPT ![loc.matchRecord] =
                 [@ EXCEPT !.notificationSent = TRUE]]
         /\ req' = [req EXCEPT ![r] = PushAndContinue(loc)]
  /\ UNCHANGED <<parentReports, finderReports, notifications>>
  /\ UNCHANGED notOracleVars

\* reports with images as lists of URLs; nothing but face-match requests runs
InitOracle ==
  /\ \E pop \in OraclePopulations :
       /\ parentReports =
            [ id \in ParentIds |->
                [ status |-> "ACTIVE", images |-> pop[id], owner |-> OwnerOf(id) ] ]
       /\ finderReports =
            [ id \in FinderIds |->
                [ status |-> "ACTIVE", images |-> pop[id], owner |-> OwnerOf(id) ] ]
  /\ matchedCases = <<>>
  /\ notifications = {}
  /\ inv = [p \in Procs |-> IdleInvocation]
  /\ statusChanges = 0
  /\ overlapped = FALSE
  /\ modelsLoaded = FALSE
  /\ ext = [c \in ExtractCalls |-> IdleExtraction]
  /\ sim = IdleSimilarityCall
  /\ InitFaceVars
  /\ req = [r \in Requests |-> IdleRequest]
  /\ InitQueueVars

NextOracle ==
  \/ \E r \in Requests, args \in RequestArgs, minConfidence \in MinConfidences :
       FindMatchesForReport(r, args[1], args[2], minConfidence)
  \/ \E r \in Requests : OracleLoadSource(r)
  \/ \E r \in Requests : OracleLoadTargets(r)
  \/ \E r \in Requests : ComparePair(r)
  \/ \E r \in Requests : OracleFindFirst(r)
  \/ \E r \in Requests : OracleUpdate(r)
  \/ \E r \in Requests : OracleCreate(r)
  \/ \E r \in Requests : OracleNotifyParent(r)
  \/ \E r \in Requests : OracleNotifyFinder(r)
  \/ \E r \in Requests : MarkNotificationSent(r)

SpecOracle == InitOracle /\ [][NextOracle]_vars

(* ------------------------------------------------------------------ *)
(* matchQueue: the add-job helpers, Bull's scheduling of the jobs, the *)
(* three processors, one action per await; and the inline processing   *)
(* of the create handlers                                              *)
(* ------------------------------------------------------------------ *)

JobIds == 1 .. MaxJobs

\* matchQueue.add(name, data, { priority, delay })
AddJob(name, reportId, imageIds, delay) ==
  /\ Len(jobs) < MaxJobs
  /\ queueTime <= MaxAddTime
  /\ jobs' = Append(jobs, NewJob(name, reportId, imageIds, delay, queueTime))
  /\ UNCHANGED <<caseImages, queueTime>>
  /\ UNCHANGED notQueueVars

AddImageProcessingJob(imageId) ==
  AddJob("process-image-embeddings", ReportOfImage(imageId), <<imageId>>,
         imageProcessingDelay)

AddMatchFindingJob(reportId) ==
  AddJob("find-matches", reportId, <<>>, matchFindingDelay)

AddBatchProcessingJob(reportId, imageIds) ==
  AddJob("batch-process-images", reportId, imageIds, batchProcessingDelay)

\* Bull: a delayed job whose time has come and whose processor has a free worker
Due(j) ==
  /\ jobs[j].state = "delayed"
  /\ queueTime >= jobs[j].readyAt
  /\ Cardinality({ k \in DOMAIN jobs :
                     jobs[k].state = "active" /\ jobs[k].name = jobs[j].name })
       < Concurrency(jobs[j].name)

\* time passes while a delayed job waits for its time; a job that is due is
\* taken at once, and a run of a handler lasts at most MaxRunTicks steps
TickQueue ==
  /\ \E j \in DOMAIN jobs :
       jobs[j].state = "delayed" /\ jobs[j].readyAt > queueTime
  /\ \A j \in DOMAIN jobs : ~Due(j)
  /\ \A j \in DOMAIN jobs :
       jobs[j].state = "active" => jobs[j].ticks < MaxRunTicks
  /\ queueTime' = queueTime + TimeStep
  /\ jobs' = [ j \in DOMAIN jobs |->
                IF jobs[j].state = "active"
                  THEN [jobs[j] EXCEPT !.ticks = @ + 1] ELSE jobs[j] ]
  /\ UNCHANGED caseImages
  /\ UNCHANGED notQueueVars

\* Bull: a delayed job whose time has come is taken by a free worker of its
\* processor and its handler is called
StartJob(j) ==
  /\ j \in DOMAIN jobs
  /\ Due(j)
  /\ jobs' = [jobs EXCEPT ![j] =
                FirstStep([jobs[j] EXCEPT !.state = "active", !.ticks = 0,
                                          !.attempted = {}, !.findMatchesCalls = 0,
                                          !.imageFailed = FALSE,
                                          !.runs = jobs[j].runs + 1])]
  /\ UNCHANGED <<caseImages, queueTime>>
  /\ UNCHANGED notQueueVars

\* batch-process-images: await prisma.caseImage.findUnique({ where: { id } });
\* without a row `if (image)` is skipped and processed++ follows
JobFindUnique(j) ==
  /\ j \in DOMAIN jobs
  /\ jobs[j].state = "active" /\ jobs[j].pc = "findUnique"
  /\ LET job == jobs[j]
     IN  jobs' = [jobs EXCEPT ![j] =
                    IF job.imageIds[job.idx] \in DOMAIN caseImages
                      THEN [job EXCEPT !.pc = "extract"]
                      ELSE NextImage(job)]
  /\ UNCHANGED <<caseImages, queueTime>>
  /\ UNCHANGED notQueueVars

\* await processImageForMatching(imageUrl): a vector, or a throw, which fails
\* the process-image-embeddings job and is caught per image in the batch job
JobExtract(j) ==
  /\ j \in DOMAIN jobs
  /\ jobs[j].state = "active" /\ jobs[j].pc = "extract"
  /\ LET job == jobs[j]
     IN  \/ jobs' = [jobs EXCEPT ![j] = [job EXCEPT !.pc = "update"]]
         \/ jobs' = [jobs EXCEPT ![j] =
                       IF job.name = "batch-process-images"
                         THEN CatchImageError(job, queueTime)
                         ELSE MoveToFailed(job, queueTime)]
  /\ UNCHANGED <<caseImages, queueTime>>
  /\ UNCHANGED notQueueVars

\* await prisma.caseImage.update({ where: { id: imageId }, data: { embeddings:
\* JSON.stringify(embeddings), processed: true } }) of both processors
JobUpdate(j) ==
  /\ j \in DOMAIN jobs
  /\ jobs[j].state = "active" /\ jobs[j].pc = "update"
  /\ LET job == jobs[j]
         imageId == job.imageIds[job.idx]
         updated == UpdateCaseImage(caseImages[imageId],
                                    EmbeddingsData(ExtractedVector))
     IN  /\ caseImages' =
              [caseImages EXCEPT ![imageId] =
                 [updated.row EXCEPT !.extracted = TRUE]]
         /\ jobs' = [jobs EXCEPT ![j] =
              IF job.name = "batch-process-images"
                THEN IF updated.ok
                       THEN NextImage(job)
                       ELSE CatchImageError(job, queueTime)
                ELSE IF updated.ok THEN MoveToCompleted(job)
                                   ELSE MoveToFailed(job, queueTime)]
  /\ UNCHANGED queueTime
  /\ UNCHANGED notQueueVars

\* await findMatches(reportId, reportType) of find-matches and of
\* batch-process-images: it returns the matches or throws
JobFindMatches(j) ==
  /\ j \in DOMAIN jobs
  /\ jobs[j].state = "active" /\ jobs[j].pc = "findMatches"
  /\ LET job == [jobs[j] EXCEPT !.findMatchesCalls = @ + 1]
     IN  \/ jobs' = [jobs EXCEPT ![j] = MoveToCompleted(job)]
         \/ jobs' = [jobs EXCEPT ![j] = MoveToFailed(job, queueTime)]
  /\ UNCHANGED <<caseImages, queueTime>>
  /\ UNCHANGED notQueueVars

\* createParentReport / createFinderReport: await processImageForMatching(...)
\* inside try; a throw is caught and logged
InlineExtract(imageId) ==
  /\ caseImages[imageId].inline = "extract"
  /\ \E next \in {"update", "done"} :
       caseImages' = [caseImages EXCEPT ![imageId].inline = next]
  /\ UNCHANGED <<jobs, queueTime>>
  /\ UNCHANGED notQueueVars

\* createParentReport / createFinderReport: await prisma.caseImage.update(...)
\* inside the same try
InlineUpdate(imageId) ==
  /\ caseImages[imageId].inline = "update"
  /\ LET updated == UpdateCaseImage(caseImages[imageId],
                                    InlineData(imageId, ExtractedVector))
     IN  caseImages' =
           [caseImages EXCEPT ![imageId] =
              [updated.row EXCEPT !.inline = "done", !.extracted = TRUE]]
  /\ UNCHANGED <<jobs, queueTime>>
  /\ UNCHANGED notQueueVars

\* nothing but the queue and the inline processing runs
InitQueue ==
  /\ parentReports = <<>>
  /\ finderReports = <<>>
  /\ matchedCases = <<>>
  /\ notifications = {}
  /\ inv = [p \in Procs |-> IdleInvocation]
  /\ statusChanges = 0
  /\ overlapped = FALSE
  /\ modelsLoaded = FALSE
  /\ ext = [c \in ExtractCalls |-> IdleExtraction]
  /\ sim = IdleSimilarityCall
  /\ InitFaceVars
  /\ req = [r \in Requests |-> IdleRequest]
  /\ InitQueueVars

\* the steps Bull and the handlers take on job j
JobStep(j) ==
  \/ StartJob(j)
  \/ JobFindUnique(j)
  \/ JobExtract(j)
  \/ JobUpdate(j)
  \/ JobFindMatches(j)

NextQueue ==
  \/ \E imageId \in ImageIds : AddImageProcessingJob(imageId)
  \/ \E reportId \in {P1, F1} : AddMatchFindingJob(reportId)
  \/ \E imageIds \in BatchImageIds : AddBatchProcessingJob(P1, imageIds)
  \/ TickQueue
  \/ \E j \in JobIds : StartJob(j)
  \/ \E j \in JobIds : JobFindUnique(j)
  \/ \E j \in JobIds : JobExtract(j)
  \/ \E j \in JobIds : JobUpdate(j)
  \/ \E j \in JobIds : JobFindMatches(j)
  \/ \E imageId \in ImageIds : InlineExtract(imageId)
  \/ \E imageId \in ImageIds : InlineUpdate(imageId)

SpecQueue == InitQueue /\ [][NextQueue]_vars

\* the queue alone
NextJobs ==
  \/ \E imageId \in ImageIds : AddImageProcessingJob(imageId)
  \/ \E reportId \in {P1, F1} : AddMatchFindingJob(reportId)
  \/ \E imageIds \in BatchImageIds : AddBatchProcessingJob(P1, imageIds)
  \/ TickQueue
  \/ \E j \in JobIds : StartJob(j)
  \/ \E j \in JobIds : JobFindUnique(j)
  \/ \E j \in JobIds : JobExtract(j)
  \/ \E j \in JobIds : JobUpdate(j)
  \/ \E j \in JobIds : JobFindMatches(j)

\* the queue with its scheduling: time passes, a free worker takes a job that is
\* due, and every await of a handler settles
SpecQueueFair ==
  /\ InitQueue
  /\ [][NextJobs]_vars
  /\ WF_vars(TickQueue)
  /\ \A j \in JobIds : WF_vars(JobStep(j))

(* ------------------------------------------------------------------ *)
(* Definitions shared by the properties                                *)
(* ------------------------------------------------------------------ *)

\* the matched_cases rows of the pair (parentCaseId, finderCaseId)
RowsOfPair(parentCaseId, finderCaseId) ==
  { k \in 1 .. Len(matchedCases) :
      /\ matchedCases[k].parentCaseId = parentCaseId
      /\ matchedCases[k].finderCaseId = finderCaseId }

\* the pair an invocation addresses for a candidate, by the reports' roles
PairOf(loc, targetId) ==
  IF loc.reportId \in ParentIds
    THEN [parentCaseId |-> loc.reportId, finderCaseId |-> targetId]
    ELSE [parentCaseId |-> targetId, finderCaseId |-> loc.reportId]

\* the similarities of all comparable (source image, candidate image) pairs
ComparableScores(sourceImages, targetImages) ==
  { calculateSimilarity(sourceImages[i], targetImages[j]) :
      <<i, j>> \in { ij \in (1 .. Len(sourceImages)) \X (1 .. Len(targetImages)) :
                       /\ Len(sourceImages[ij[1]]) > 0
                       /\ Len(targetImages[ij[2]]) > 0 } }

\* the notifications an invocation sent for its candidate number i
SentFor(p, i) == { n \in notifications : n.by = p /\ n.candidate = i }

\* the accepted candidates (their positions) of an invocation
AcceptedBy(loc) == { i \in 1 .. Len(loc.log) : loc.log[i].accepted }

\* the source report of an invocation has an image with a feature vector
HasProcessableImage(loc) ==
  \E i \in 1 .. Len(loc.sourceImages) : Len(loc.sourceImages[i]) > 0

\* the arguments of an invocation name no report of the given role
NoSourceReport(loc) ==
  \/ loc.reportType \notin {"PARENT", "FINDER"}
  \/ loc.reportType = "PARENT" /\ loc.reportId \notin DOMAIN parentReports
  \/ loc.reportType = "FINDER" /\ loc.reportId \notin DOMAIN finderReports

(* ------------------------------------------------------------------ *)
(* Properties                                                          *)
(* ------------------------------------------------------------------ *)

\* C1: as long as findMatches invocations never overlap (they run one after
\* another, from either side), no pair has two matched_cases rows, and an
\* invocation only reaches the insert for a pair that has no row yet: a second
\* run for an already matched pair adds nothing.
C1_SequentialRunsAddNoSecondRecord ==
  ~overlapped =>
    /\ \A j, k \in 1 .. Len(matchedCases) :
         ( /\ matchedCases[j].parentCaseId = matchedCases[k].parentCaseId
           /\ matchedCases[j].finderCaseId = matchedCases[k].finderCaseId ) => j = k
    /\ \A p \in Procs :
         inv[p].pc = "create" =>
           RowsOfPair(inv[p].matchData.parentCaseId,
                      inv[p].matchData.finderCaseId) = {}

\* C1 witness: two sequential runs have returned, the first inserted a row and
\* the second accepted a candidate whose row it found.
C1_Witness ==
  /\ ~overlapped
  /\ \E p, q \in Procs :
       /\ p # q
       /\ inv[p].pc = "done" /\ inv[p].matches # <<>>
       /\ inv[q].pc = "done" /\ inv[q].reconfirmed # {}
       /\ Len(matchedCases) = Len(inv[p].matches)

\* C2: in every interleaving of findMatches invocations the store never holds
\* two matched_cases rows for the same (parentCaseId, finderCaseId) pair.
C2_NoDuplicatePairUnderConcurrency ==
  \A parentCaseId \in ParentIds, finderCaseId \in FinderIds :
    Cardinality(RowsOfPair(parentCaseId, finderCaseId)) <= 1

\* C2 witness: the race has happened: an invocation passed the lookup with no
\* row found and stands at the insert while another one's row for the same
\* pair is already stored.
C2_Witness ==
  \E p, q \in Procs :
    /\ p # q
    /\ inv[p].pc = "create"
    /\ \E k \in RowsOfPair(inv[p].matchData.parentCaseId,
                           inv[p].matchData.finderCaseId) :
         \E m \in 1 .. Len(inv[q].matches) : inv[q].matches[m] = k

\* C3 (as claimed): no findMatches invocation terminates with the unique
\* constraint error of a lost duplicate-match race.
C3_RaceDoesNotFailTheCall ==
  \A p \in Procs : ~(inv[p].pc = "failed" /\ inv[p].error = "P2002")

\* C4 (as claimed): once an invocation has returned, every candidate it
\* accepted whose row already existed has that row at status MATCHED with the
\* confidence the invocation computed.
C4_ExistingRowRefreshed ==
  \A p \in Procs :
    inv[p].pc = "done" =>
      \A i \in inv[p].reconfirmed :
        LET pair == PairOf(inv[p], inv[p].log[i].target)
        IN  \A k \in RowsOfPair(pair.parentCaseId, pair.finderCaseId) :
              /\ matchedCases[k].status = "MATCHED"
              /\ matchedCases[k].matchConfidence = inv[p].log[i].best

\* C5 (as claimed): every row the Resolver inserted has status MATCHED and
\* notificationSent = false.
C5_InsertedAsMatched ==
  \A k \in 1 .. Len(matchedCases) :
    /\ matchedCases[k].status = "MATCHED"
    /\ matchedCases[k].notificationSent = FALSE

\* C6: a candidate is accepted if and only if its bestScore is at least 0.7
\* (7/10 of the score scale), the boundary included; every stored row carries
\* a confidence of at least 0.7, and every row an invocation inserted belongs
\* to a candidate it accepted.
C6_AcceptedIffAtLeastThreshold ==
  /\ \A p \in Procs :
       /\ \A i \in 1 .. Len(inv[p].log) :
            inv[p].log[i].accepted <=> 10 * inv[p].log[i].best >= 7 * ScoreScale
       /\ \A m \in 1 .. Len(inv[p].matches) :
            \E i \in 1 .. Len(inv[p].log) :
              /\ inv[p].log[i].accepted
              /\ RowsOfPair(PairOf(inv[p], inv[p].log[i].target).parentCaseId,
                            PairOf(inv[p], inv[p].log[i].target).finderCaseId)
                   = {inv[p].matches[m]}
  /\ \A k \in 1 .. Len(matchedCases) :
       10 * matchedCases[k].matchConfidence >= 7 * ScoreScale

\* C6 witness: one returned invocation accepted a candidate scoring exactly 0.7
\* and inserted its row, and rejected a candidate scoring just below 0.7.
C6_Witness ==
  \E p \in Procs :
    /\ inv[p].pc = "done"
    /\ Len(inv[p].matches) = 1
    /\ \E i, j \in 1 .. Len(inv[p].log) :
         /\ inv[p].log[i].accepted
         /\ 10 * inv[p].log[i].best = 7 * ScoreScale
         /\ ~inv[p].log[j].accepted
         /\ 100 * inv[p].log[j].best >= 68 * ScoreScale

\* C7: the bestScore of every candidate is the maximum similarity over its
\* comparable image pairs (both vectors non-empty); a candidate without a
\* comparable pair scores 0, is rejected and gets no row from the invocation.
C7_BestScoreIsMaxOverComparablePairs ==
  \A p \in Procs :
    \A i \in 1 .. Len(inv[p].log) :
      LET scores == ComparableScores(inv[p].sourceImages,
                                     inv[p].targetReports[i].images)
          pair == PairOf(inv[p], inv[p].log[i].target)
      IN  /\ inv[p].log[i].target = inv[p].targetReports[i].id
          /\ scores # {} =>
               /\ inv[p].log[i].best \in scores
               /\ \A x \in scores : x <= inv[p].log[i].best
          /\ scores = {} =>
               /\ inv[p].log[i].best = 0
               /\ ~inv[p].log[i].accepted
               /\ \A m \in 1 .. Len(inv[p].matches) :
                    inv[p].matches[m] \notin
                      RowsOfPair(pair.parentCaseId, pair.finderCaseId)

\* C7 witness: a returned invocation had a candidate with several comparable
\* pairs of different similarity, accepted on the largest, and a candidate with
\* no comparable pair.
C7_Witness ==
  \E p \in Procs :
    /\ inv[p].pc = "done"
    /\ \E i, j \in 1 .. Len(inv[p].log) :
         /\ Cardinality(ComparableScores(inv[p].sourceImages,
                                         inv[p].targetReports[i].images)) > 1
         /\ inv[p].log[i].accepted
         /\ ComparableScores(inv[p].sourceImages,
                             inv[p].targetReports[j].images) = {}
         /\ inv[p].targetReports[j].images # <<>>

\* C8: every candidate an invocation processes, and so every row it looks up
\* or inserts, is a report of the opposite role, other than the source report,
\* whose status was ACTIVE when the candidates were loaded.
C8_OnlyActiveOppositeCandidates ==
  \A p \in Procs :
    /\ \A k \in 1 .. Len(inv[p].targetReports) :
         LET id == inv[p].targetReports[k].id
         IN  /\ id # inv[p].reportId
             /\ inv[p].reportType = "PARENT" => id \in FinderIds
             /\ inv[p].reportType = "FINDER" => id \in ParentIds
             /\ inv[p].statusAtLoad[id] = "ACTIVE"
    /\ \A m \in 1 .. Len(inv[p].matches) :
         \E k \in 1 .. Len(inv[p].targetReports) :
           LET row == matchedCases[inv[p].matches[m]]
           IN  {row.parentCaseId, row.finderCaseId}
                 = {inv[p].reportId, inv[p].targetReports[k].id}

\* C8 witness: a returned invocation inserted a row for an ACTIVE candidate
\* while a report that was not ACTIVE at load time, whose images score above
\* the threshold, got neither a lookup nor a row.
C8_Witness ==
  \E p \in Procs :
    /\ inv[p].pc = "done"
    /\ inv[p].matches # <<>>
    /\ \E id \in DOMAIN inv[p].statusAtLoad :
         /\ inv[p].statusAtLoad[id] \in {"RESOLVED", "CLOSED", "CANCELLED"}
         /\ Accepts(BestSimilarity(inv[p].sourceImages,
                                   (parentReports @@ finderReports)[id].images))
         /\ \A i \in 1 .. Len(inv[p].log) : inv[p].log[i].target # id
         /\ RowsOfPair(PairOf(inv[p], id).parentCaseId,
                       PairOf(inv[p], id).finderCaseId) = {}

\* C9: every stored row, and every pair an invocation looks up or inserts, has
\* a parent report id as parentCaseId and a finder report id as finderCaseId,
\* made of the source report and the candidate; so a parent-side and a
\* finder-side search address the same row.
C9_CanonicalPairOrdering ==
  /\ \A k \in 1 .. Len(matchedCases) :
       /\ matchedCases[k].parentCaseId \in ParentIds
       /\ matchedCases[k].finderCaseId \in FinderIds
  /\ \A p \in Procs :
       inv[p].pc \in {"findFirst", "create"} =>
         /\ inv[p].matchData.parentCaseId \in ParentIds
         /\ inv[p].matchData.finderCaseId \in FinderIds
         /\ {inv[p].matchData.parentCaseId, inv[p].matchData.finderCaseId}
              = {inv[p].reportId, inv[p].targetReports[inv[p].idx].id}

\* C9 witness: a finder-side search found, by its lookup, the row a
\* parent-side search had inserted for the same two reports.
C9_Witness ==
  \E p, q \in Procs :
    /\ inv[p].reportType = "PARENT" /\ inv[p].matches # <<>>
    /\ inv[q].reportType = "FINDER" /\ inv[q].pc = "done"
    /\ \E i \in inv[q].reconfirmed :
         \E m \in 1 .. Len(inv[p].matches) :
           /\ matchedCases[inv[p].matches[m]].parentCaseId = inv[p].reportId
           /\ matchedCases[inv[p].matches[m]].finderCaseId = inv[q].reportId
           /\ inv[q].log[i].target = inv[p].reportId

\* C10 (as claimed): when an invocation has returned, every candidate it
\* accepted, freshly inserted or already stored, has exactly three
\* notifications from it: to the parent report's owner, to the finder report's
\* owner and to userId null, each with the match id and the confidence.
C10_ThreeNotificationsPerAccepted ==
  \A p \in Procs :
    inv[p].pc = "done" =>
      \A i \in 1 .. Len(inv[p].log) :
        inv[p].log[i].accepted =>
          LET pair == PairOf(inv[p], inv[p].log[i].target)
              sent == SentFor(p, i)
          IN  /\ Cardinality(sent) = 3
              /\ \E n \in sent : n.userId = OwnerOf(pair.parentCaseId)
              /\ \E n \in sent : n.userId = OwnerOf(pair.finderCaseId)
              /\ \E n \in sent : n.userId = NullUser
              /\ \A n \in sent :
                   /\ n.matchId \in RowsOfPair(pair.parentCaseId, pair.finderCaseId)
                   /\ n.matchConfidence = inv[p].log[i].best

\* C11 (as claimed): a failing sendNotification is only logged: the invocation
\* never terminates with the error sendNotification threw (so that it goes on
\* with the remaining candidates).
C11_NotificationFailureOnlyLogged ==
  \A p \in Procs :
    ~(inv[p].pc = "failed" /\ inv[p].error = "notification failed")

\* C12 (as claimed): an invocation whose matchedCase.create threw for one
\* candidate still decides every remaining candidate of the same run.
C12_CandidateFailureDoesNotStopTheRun ==
  \A p \in Procs :
    inv[p].error = "P2002" => Len(inv[p].log) = Len(inv[p].targetReports)

\* C13: an invocation whose arguments name no source report (the id is not in
\* the table of the given role, or the type is neither PARENT nor FINDER) never
\* gets past loading the source: it ends failed with the corresponding error,
\* has loaded no candidates, decided none, inserted no row and sent no
\* notification.
C13_MissingSourceFailsWithoutEffect ==
  \A p \in Procs :
    (inv[p].pc # "idle" /\ NoSourceReport(inv[p])) =>
      /\ inv[p].pc \in {"loadSource", "failed"}
      /\ inv[p].pc = "failed" =>
           inv[p].error =
             IF inv[p].reportType = "PARENT" THEN "Parent report not found"
             ELSE IF inv[p].reportType = "FINDER" THEN "Finder report not found"
             ELSE "Invalid report type"
      /\ inv[p].targetReports = <<>>
      /\ inv[p].log = <<>>
      /\ inv[p].matches = <<>>
      /\ \A n \in notifications : n.by # p

\* C13 witness: a call naming a finder report as PARENT has failed with
\* "Parent report not found" while another invocation had inserted a row and
\* sent notifications.
C13_Witness ==
  \E p, q \in Procs :
    /\ inv[p].pc = "failed" /\ inv[p].error = "Parent report not found"
    /\ inv[p].reportId = F1
    /\ inv[q].matches # <<>>
    /\ notifications # {}

\* C14 (as claimed): findMatches does not return normally for a source report
\* without a processable image (no image with a non-empty feature vector).
C14_NoProcessableImagesIsInputError ==
  \A p \in Procs : inv[p].pc = "done" => HasProcessableImage(inv[p])

\* C15 (as claimed): the list a returned invocation hands back has one entry
\* per candidate it accepted, the row of that candidate's pair, whether the
\* invocation inserted the row or found it.
C15_ReturnedListIsAcceptedSet ==
  \A p \in Procs :
    inv[p].pc = "done" =>
      /\ Len(inv[p].matches) = Cardinality(AcceptedBy(inv[p]))
      /\ \A i \in AcceptedBy(inv[p]) :
           LET pair == PairOf(inv[p], inv[p].log[i].target)
           IN  \E m \in 1 .. Len(inv[p].matches) :
                 inv[p].matches[m] \in RowsOfPair(pair.parentCaseId,
                                                  pair.finderCaseId)

\* C16 (as claimed): every stored confidence is a percentage: the row of a
\* candidate accepted with score s carries 100 * s (a score of 1.0, that is
\* ScoreScale, is stored as 100.0, that is 100 * ScoreScale).
C16_ConfidenceOnPercentScale ==
  \A p \in Procs :
    \A i \in AcceptedBy(inv[p]) :
      LET pair == PairOf(inv[p], inv[p].log[i].target)
      IN  \A m \in 1 .. Len(inv[p].matches) :
            inv[p].matches[m] \in RowsOfPair(pair.parentCaseId, pair.finderCaseId)
              => matchedCases[inv[p].matches[m]].matchConfidence
                   = 100 * inv[p].log[i].best

\* C17 (as claimed): no processImageForMatching call ends by throwing: every
\* call that has ended has returned a vector, whatever failed on its way.
C17_ExtractorNeverThrows ==
  \A c \in ExtractCalls : ext[c].pc # "threw"

\* C18 (as claimed): all non-empty vectors processImageForMatching returns have
\* one length, that of the last-resort zero vector, whether they are face
\* descriptors or byte-sample features.
C18_OneVectorLength ==
  \A c \in ExtractCalls :
    (ext[c].pc = "returned" /\ Len(ext[c].result) > 0) =>
      /\ Len(ext[c].result) = Len(generateSimpleImageFeatures(UndefinedBuffer))
      /\ \A d \in ExtractCalls :
           (ext[d].pc = "returned" /\ Len(ext[d].result) > 0) =>
             Len(ext[d].result) = Len(ext[c].result)

\* C19: the value calculateSimilarity returned for (embedding1, embedding2) is
\* the value it gives for the swapped arguments, for arrays of numbers of any
\* lengths, zero vectors, empty arrays and values that are no arrays.
C19_SimilaritySymmetric ==
  sim.pc = "returned" =>
    sim.result = calculateSimilarityOf(sim.embedding2, sim.embedding1)

\* C19 witness: a call on two different non-zero vectors of equal length
\* returned a score strictly between 0.5 and 1.
C19_Witness ==
  /\ sim.pc = "returned"
  /\ sim.embedding1 # sim.embedding2
  /\ 2 * sim.result > ScoreScale
  /\ sim.result < ScoreScale

C21_DegenerateInputsScoreZero ==
  sim.pc = "returned" =>
    LET a == sim.embedding1.items
        b == sim.embedding2.items
        AllZero(v) == \A i \in 1 .. Len(v) : v[i] = 0
    IN  ( \/ ~sim.embedding1.isArray \/ ~sim.embedding2.isArray
          \/ Len(a) = 0 \/ Len(b) = 0
          \/ Len(a) # Len(b)
          \/ AllZero(a) \/ AllZero(b) ) => sim.result = 0

\* C21 witness: a call on two non-zero arrays of different non-zero lengths
\* whose common prefix is parallel returned 0.
C21_Witness ==
  /\ sim.pc = "returned"
  /\ sim.embedding1.isArray /\ sim.embedding2.isArray
  /\ Len(sim.embedding1.items) = 4 /\ Len(sim.embedding2.items) = 3
  /\ sim.embedding1.items[1] * sim.embedding2.items[1] > 0
  /\ sim.result = 0

\* C29 (as claimed): however many processImageForMatching calls run, one after
\* another or overlapping, the loading step of loadModels succeeds in at most
\* one of them, and none is in progress once the models are loaded.
C29_ModelsLoadedOnce ==
  /\ Cardinality({ c \in ExtractCalls : ext[c].loadedModels }) <= 1
  /\ modelsLoaded => \A c \in ExtractCalls : ext[c].pc # "loadModels"

\* C30 (as claimed): no compareTwoFaces call writes over, reads or deletes a
\* temp file that holds what another call in flight wrote, and once a call has
\* returned no file exists at its two temp paths.
C30_NoTempFileInterference ==
  \A c \in FaceCalls :
    /\ ~faces[c].overwrote
    /\ ~faces[c].readForeign
    /\ ~faces[c].deletedForeign
    /\ faces[c].pc = "returned" =>
         {faces[c].img1Path, faces[c].img2Path} \cap DOMAIN tempFiles = {}

\* C22: on the oracle path compareTwoFaces turns the oracle's answer into a
\* fixed confidence, 95 for match = true and 30 for match = false, and a
\* candidate is accepted exactly when some (parent image, finder image) pair
\* got match = true from the oracle and that confidence, 95, is at least
\* minConfidence.
C22_OracleAcceptance ==
  \A r \in Requests :
    /\ req[r].lastOutcome = "match" =>
         req[r].lastResult.match /\ req[r].lastResult.confidence = 95
    /\ req[r].lastOutcome = "nomatch" =>
         ~req[r].lastResult.match /\ req[r].lastResult.confidence = 30
    /\ \A k \in 1 .. Len(req[r].log) :
         req[r].log[k].accepted <=>
           (req[r].log[k].sawMatch /\ 95 >= req[r].minConfidence)

\* C22 witness: with the default minConfidence a candidate was accepted although
\* its last pair got match = false, and a request with a stricter minConfidence
\* rejected a candidate one of whose pairs got match = true
C22_Witness ==
  \E r1, r2 \in Requests :
    /\ req[r1].minConfidence = 85 /\ req[r1].lastOutcome = "nomatch"
    /\ req[r1].pc = "findFirst"
    /\ req[r1].log[Len(req[r1].log)].accepted
    /\ req[r2].minConfidence = 96 /\ req[r2].pc = "responded"
    /\ \E k \in 1 .. Len(req[r2].log) :
         req[r2].log[k].sawMatch /\ ~req[r2].log[k].accepted

C25_ExtractedVectorIsStored ==
  \A i \in ImageIds :
    caseImages[i].extracted => Len(caseImages[i].embeddingVector) > 0

C28_FindMatchesAfterEmbeddings ==
  \A f \in DOMAIN jobs : \A e \in DOMAIN jobs :
    ( /\ jobs[f].name = "find-matches" /\ jobs[f].runs > 0
      /\ jobs[e].name = "process-image-embeddings" /\ e < f
      /\ jobs[e].reportId = jobs[f].reportId )
    => jobs[e].state = "completed"

====
